---- MODULE Spec2Model ----
(***************************************************************************)
(* A model of retypd-rust: the constraint graph of graph.rs (the builder   *)
(* of Algorithm D.1 and the saturation of Algorithm D.2) and the shape     *)
(* inference of solver.rs (Algorithm E.1: step graph, unification,         *)
(* quotient graph).                                                        *)
(*                                                                         *)
(* NodeIndex values are 1-based positions in the node sequence; petgraph's *)
(* raw_edges() is the edge sequence in insertion order.                    *)
(***************************************************************************)
EXTENDS Integers, Sequences, FiniteSets, TLC

VARIABLES
    constraints,      \* the Vec<&Constraint> handed to ConstraintGraph::new / the program's constraints
    pc,               \* position in ConstraintGraph::new or in infer_shapes
    next_b,           \* build_initial_graph: index of the constraint the loop is at
    nodes,            \* ConstraintGraph.graph: node weights by NodeIndex
    edges,            \* ConstraintGraph.graph: raw_edges(), in insertion order
    graph_node_map,   \* ConstraintGraph.graph_node_map
    reaching_set,     \* saturate's local reaching_set
    changed,          \* saturate's local changed
    passes,           \* history: number of passes of saturate's while loop begun
    pass_start_size,  \* history: entries plus edges when the current pass began
    r_one,            \* rule-at-a-time saturation: the One edges (source, target)
    r_reach,          \* rule-at-a-time saturation: the reaching sets
    g_nodes,          \* infer_shapes: g's node weights (dtv, represent) by NodeIndex
    g_edges,          \* infer_shapes: g's edges, in insertion order
    gm,               \* infer_shapes: gm
    next_c,           \* infer_shapes: index of the constraint step 1, then step 2, is at
    g_quotient,       \* infer_shapes: g_quotient's node weights (lists of DTVs)
    gq_edges,         \* infer_shapes: g_quotient's edges, in insertion order
    gm_quotient,      \* infer_shapes: gm_quotient
    call_graph,       \* Program.call_graph: node weights by NodeIndex, and the edges
    proc_constraints, \* Program.proc_constraints
    type_schemes,     \* infer_proc_types: the keys of type_schemes
    sccs,             \* infer_proc_types: the node weights of sccs by NodeIndex
    topo_sort,        \* infer_proc_types: topo_sort
    sched_pos,        \* infer_proc_types: position of the for loop in topo_sort.iter().rev()
    handed,           \* history: the calls of ConstraintGraph::new, in order
    dtv_in,           \* round trip: the DerivedTypeVariable given
    text,             \* round trip: its Display text, a sequence of characters
    parsed            \* round trip: what parse_derived_type_variable returns for text

vars == <<constraints, pc, next_b, nodes, edges, graph_node_map, reaching_set, changed,
          passes, pass_start_size, r_one, r_reach,
          g_nodes, g_edges, gm, next_c, g_quotient, gq_edges, gm_quotient,
          call_graph, proc_constraints, type_schemes, sccs, topo_sort, sched_pos, handed,
          dtv_in, text, parsed>>

graph_vars == <<next_b, nodes, edges, graph_node_map, reaching_set, changed, passes, pass_start_size>>
rule_vars == <<r_one, r_reach>>
shape_vars == <<g_nodes, g_edges, gm, next_c, g_quotient, gq_edges, gm_quotient>>
sched_vars == <<call_graph, proc_constraints, type_schemes, sccs, topo_sort, sched_pos, handed>>
text_vars == <<dtv_in, text, parsed>>

Range(f) == {f[i] : i \in DOMAIN f}

-----------------------------------------------------------------------------
(* schema.rs: the term model *)

Covariant == "Covariant"
Contravariant == "Contravariant"

invert(v) == IF v = Covariant THEN Contravariant ELSE Covariant

combine(v, other) == IF v = other THEN Covariant ELSE Contravariant

Load == [tag |-> "Load", id |-> ""]
Store == [tag |-> "Store", id |-> ""]
InPattern(i) == [tag |-> "InPattern", id |-> i]
OutPattern(i) == [tag |-> "OutPattern", id |-> i]

variance(label) ==
    CASE label.tag = "InPattern" -> Contravariant
      [] label.tag = "OutPattern" -> Covariant
      [] label.tag = "DerefPattern" -> Covariant
      [] label.tag = "Load" -> Covariant
      [] label.tag = "Store" -> Contravariant

DerivedTypeVariable(name, fields) == [name |-> name, fields |-> fields]

get_sub_dtv(dtv, index) ==
    [name |-> dtv.name, fields |-> SubSeq(dtv.fields, 1, index)]

Constraint(left, right) == [left |-> left, right |-> right]

-----------------------------------------------------------------------------
(* graph.rs: nodes, edge labels and the graph *)

One == [kind |-> "One", capability |-> [tag |-> "", id |-> ""]]
Forget(cap) == [kind |-> "Forget", capability |-> cap]
Recall(cap) == [kind |-> "Recall", capability |-> cap]

SideMarkNone == "None"

Node(base, suffix_variance, sidemark) ==
    [base |-> base, suffix_variance |-> suffix_variance, sidemark |-> sidemark]

None == [some |-> FALSE]
Some(v) == [some |-> TRUE, val |-> v]

\* forget_once handing the variance on unchanged, without the combine of line 96
forget_once_uncombined(node) ==
    IF node.base.fields = <<>>
    THEN None
    ELSE LET n == Len(node.base.fields)
             base == [name |-> node.base.name,
                      fields |-> SubSeq(node.base.fields, 1, n - 1)]
         IN  Some([cap |-> node.base.fields[n],
                   node |-> Node(base, node.suffix_variance, node.sidemark)])

forget_once(node) ==
    IF node.base.fields = <<>>
    THEN None
    ELSE LET n == Len(node.base.fields)
             last == node.base.fields[n]
             base == [name |-> node.base.name,
                      fields |-> SubSeq(node.base.fields, 1, n - 1)]
         IN  Some([cap |-> last,
                   node |-> Node(base, combine(node.suffix_variance, variance(last)),
                                 node.sidemark)])

\* ConstraintGraph::construct: the empty graph
construct == [nodes |-> <<>>, edges |-> <<>>, map |-> <<>>]

Edge(from, to, label) == [source |-> from, target |-> to, label |-> label]

\* petgraph's DiGraph::add_edge as build_initial_graph calls it: no check at all
graph_add_edge(G, from, to, label) ==
    [G EXCEPT !.edges = Append(@, Edge(from, to, label))]

\* add_node without the lookup in graph_node_map
add_node_unchecked(G, node) ==
    LET node_index == Len(G.nodes) + 1
    IN  [g |-> [G EXCEPT !.nodes = Append(@, node),
                         !.map = (node :> node_index) @@ @],
         index |-> node_index]

\* add_node without `graph_node_map.insert`
add_node_unmapped(G, node) ==
    IF node \in DOMAIN G.map
    THEN [g |-> G, index |-> G.map[node]]
    ELSE [g |-> [G EXCEPT !.nodes = Append(@, node)], index |-> Len(G.nodes) + 1]

\* returns the graph and the node's index
add_node(G, node) ==
    IF node \in DOMAIN G.map
    THEN [g |-> G, index |-> G.map[node]]
    ELSE LET node_index == Len(G.nodes) + 1
         IN  [g |-> [G EXCEPT !.nodes = Append(@, node),
                              !.map = (node :> node_index) @@ @],
              index |-> node_index]

\* the edges_connecting(from, to).find(weight == label) of add_edge
edge_exists(G, from, to, label) ==
    \E i \in 1..Len(G.edges) : G.edges[i] = Edge(from, to, label)

\* add_edge reporting an edge it found already there as added
add_edge_reports_existing(G, from, to, label) ==
    IF from = to
    THEN [g |-> G, added |-> FALSE]
    ELSE IF edge_exists(G, from, to, label)
         THEN [g |-> G, added |-> TRUE]
         ELSE [g |-> graph_add_edge(G, from, to, label), added |-> TRUE]

\* returns the graph and whether an edge was added
add_edge(G, from, to, label) ==
    IF from = to
    THEN [g |-> G, added |-> FALSE]
    ELSE IF edge_exists(G, from, to, label)
         THEN [g |-> G, added |-> FALSE]
         ELSE [g |-> graph_add_edge(G, from, to, label), added |-> TRUE]

RECURSIVE add_recalls_from(_, _, _)
add_recalls_from(G, node_ind, t) ==
    IF ~t.some
    THEN G
    ELSE LET an == add_node(G, t.val.node)
             G2 == add_edge(an.g, an.index, node_ind, Recall(t.val.cap)).g
         IN  add_recalls_from(G2, an.index, forget_once(t.val.node))

add_recalls(G, node_ind) ==
    add_recalls_from(G, node_ind, forget_once(G.nodes[node_ind]))

RECURSIVE add_forgets_from(_, _, _)
add_forgets_from(G, node_ind, t) ==
    IF ~t.some
    THEN G
    ELSE LET an == add_node(G, t.val.node)
             G2 == add_edge(an.g, node_ind, an.index, Forget(t.val.cap)).g
         IN  add_forgets_from(G2, an.index, forget_once(t.val.node))

add_forgets(G, node_ind) ==
    add_forgets_from(G, node_ind, forget_once(G.nodes[node_ind]))

\* lines 195-211 with the One edge laid from r to l
build_covariant_reversed(G, c) ==
    LET l == add_node(G, Node(c.left, Covariant, SideMarkNone))
        r == add_node(l.g, Node(c.right, Covariant, SideMarkNone))
        G1 == graph_add_edge(r.g, r.index, l.index, One)
        G2 == add_recalls(G1, l.index)
    IN  add_forgets(G2, r.index)

\* build_initial_graph's loop body, lines 195-211: the covariant nodes of c, their
\* One edge, the Recall chain of the left side and the Forget chain of the right
build_covariant(G, c) ==
    LET l == add_node(G, Node(c.left, Covariant, SideMarkNone))
        r == add_node(l.g, Node(c.right, Covariant, SideMarkNone))
        G1 == graph_add_edge(r.g, l.index, r.index, One)
        G2 == add_recalls(G1, l.index)
    IN  add_forgets(G2, r.index)

\* lines 216-231 with Variance::Covariant left in the two nodes
build_contravariant_uninverted(G, c) ==
    LET r_node_l == add_node(G, Node(c.left, Covariant, SideMarkNone))
        r_node_r == add_node(r_node_l.g, Node(c.right, Covariant, SideMarkNone))
        G1 == graph_add_edge(r_node_r.g, r_node_r.index, r_node_l.index, One)
        G2 == add_recalls(G1, r_node_l.index)
    IN  add_forgets(G2, r_node_r.index)

\* lines 216-231 without add_recalls and add_forgets
build_contravariant_unchained(G, c) ==
    LET r_node_l == add_node(G, Node(c.left, Contravariant, SideMarkNone))
        r_node_r == add_node(r_node_l.g, Node(c.right, Contravariant, SideMarkNone))
    IN  graph_add_edge(r_node_r.g, r_node_r.index, r_node_l.index, One)

\* lines 216-231 with the One edge laid from l to r
build_contravariant_unreversed(G, c) ==
    LET r_node_l == add_node(G, Node(c.left, Contravariant, SideMarkNone))
        r_node_r == add_node(r_node_l.g, Node(c.right, Contravariant, SideMarkNone))
        G1 == graph_add_edge(r_node_r.g, r_node_l.index, r_node_r.index, One)
        G2 == add_recalls(G1, r_node_l.index)
    IN  add_forgets(G2, r_node_r.index)

\* build_initial_graph's loop body, lines 216-231: the same for the contravariant
\* nodes, the One edge from right to left
build_contravariant(G, c) ==
    LET r_node_l == add_node(G, Node(c.left, Contravariant, SideMarkNone))
        r_node_r == add_node(r_node_l.g, Node(c.right, Contravariant, SideMarkNone))
        G1 == graph_add_edge(r_node_r.g, r_node_r.index, r_node_l.index, One)
        G2 == add_recalls(G1, r_node_l.index)
    IN  add_forgets(G2, r_node_r.index)

-----------------------------------------------------------------------------
(* graph.rs: saturate *)

\* add_reaching replacing the set of dest instead of inserting into it
add_reaching_overwrite(rs, dest, elem) ==
    [rs |-> [rs EXCEPT ![dest] = {elem}], inserted |-> elem \notin rs[dest]]

\* the add_reaching closure: returns the table and whether the entry is new
add_reaching(rs, dest, elem) ==
    [rs |-> [rs EXCEPT ![dest] = @ \cup {elem}], inserted |-> elem \notin rs[dest]]

\* the edges a loop `for e in raw_edges() { if let EdgeLabel::<kind> ... }` acts on,
\* in the order it meets them
edges_of_kind(G, kind) == SelectSeq(G.edges, LAMBDA e : e.label.kind = kind)

\* seed_from recording the target of the Forget edge in the entry, not its source
RECURSIVE seed_from_target(_, _, _, _)
seed_from_target(es, rs, ch, i) ==
    IF i > Len(es)
    THEN [rs |-> rs, changed |-> ch]
    ELSE LET a == add_reaching(rs, es[i].target, <<es[i].label.capability, es[i].target>>)
         IN  seed_from_target(es, a.rs, ch \/ a.inserted, i + 1)

\* lines 248-256: every Forget edge seeds the reaching set of its target; es are
\* the Forget edges
RECURSIVE seed_from(_, _, _, _)
seed_from(es, rs, ch, i) ==
    IF i > Len(es)
    THEN [rs |-> rs, changed |-> ch]
    ELSE LET a == add_reaching(rs, es[i].target, <<es[i].label.capability, es[i].source>>)
         IN  seed_from(es, a.rs, ch \/ a.inserted, i + 1)

\* the loop `for (cap, node) in set.clone()` of lines 264-266
RECURSIVE add_reaching_all(_, _, _, _)
add_reaching_all(rs, dest, elems, ch) ==
    IF elems = {}
    THEN [rs |-> rs, changed |-> ch]
    ELSE LET x == CHOOSE x \in elems : TRUE
             a == add_reaching(rs, dest, x)
         IN  add_reaching_all(a.rs, dest, elems \ {x}, ch \/ a.inserted)

\* propagate_from without `changed |=`
RECURSIVE propagate_unreported(_, _, _, _)
propagate_unreported(es, rs, ch, i) ==
    IF i > Len(es)
    THEN [rs |-> rs, changed |-> ch]
    ELSE LET a == add_reaching_all(rs, es[i].target, rs[es[i].source], ch)
         IN  propagate_unreported(es, a.rs, ch, i + 1)

\* lines 259-269: one sweep over the One edges es, in edge order, updating in place
RECURSIVE propagate_from(_, _, _, _)
propagate_from(es, rs, ch, i) ==
    IF i > Len(es)
    THEN [rs |-> rs, changed |-> ch]
    ELSE LET a == add_reaching_all(rs, es[i].target, rs[es[i].source], ch)
         IN  propagate_from(es, a.rs, a.changed, i + 1)

\* every order in which a HashSet may hand out its elements
RECURSIVE iteration_orders(_)
iteration_orders(S) ==
    IF S = {}
    THEN {<<>>}
    ELSE UNION {{<<x>> \o rest : rest \in iteration_orders(S \ {x})} : x \in S}

\* one_edges_for pushing edges that carry the Recall label of e instead of One
recall_edges_for(e, head) == [k \in 1..Len(head) |-> Edge(head[k][2], e.target, e.label)]

\* the One edges a Recall edge e adds to to_add, in the order head of the entries
one_edges_for(e, head) == [k \in 1..Len(head) |-> Edge(head[k][2], e.target, One)]

\* to_add_from without the test `cap == capability`
RECURSIVE to_add_any_capability(_, _, _)
to_add_any_capability(es, rs, i) ==
    IF i > Len(es)
    THEN {<<>>}
    ELSE {one_edges_for(es[i], head) \o tail :
             head \in iteration_orders(rs[es[i].source]),
             tail \in to_add_any_capability(es, rs, i + 1)}

\* lines 270-284: the to_add vectors the sweep over the Recall edges es can build
RECURSIVE to_add_from(_, _, _)
to_add_from(es, rs, i) ==
    IF i > Len(es)
    THEN {<<>>}
    ELSE {one_edges_for(es[i], head) \o tail :
             head \in iteration_orders({x \in rs[es[i].source] :
                                            x[1] = es[i].label.capability}),
             tail \in to_add_from(es, rs, i + 1)}

\* lines 285-287
RECURSIVE add_edges_from(_, _, _, _)
add_edges_from(G, to_add, ch, i) ==
    IF i > Len(to_add)
    THEN [g |-> G, changed |-> ch]
    ELSE LET a == add_edge(G, to_add[i].source, to_add[i].target, to_add[i].label)
         IN  add_edges_from(a.g, to_add, ch \/ a.added, i + 1)

\* to_add_invert without the branch `cap == &FieldLabel::Store`
to_add_invert_load_only(G, rs) ==
    UNION {{<<x[2], Store, n>> : x \in {y \in rs[n] : y[1] = Load}} :
           n \in {m \in 1..Len(G.nodes) : G.nodes[m].suffix_variance = Contravariant}}

\* lines 288-305: the (source, capability to add, contravariant node) triples
to_add_invert(G, rs) ==
    UNION {{<<x[2], Load, n>> : x \in {y \in rs[n] : y[1] = Store}}
           \cup {<<x[2], Store, n>> : x \in {y \in rs[n] : y[1] = Load}} :
           n \in {m \in 1..Len(G.nodes) : G.nodes[m].suffix_variance = Contravariant}}

inverted_node(node) == [node EXCEPT !.suffix_variance = invert(@)]

\* lines 306-315; panicked: the unwrap of graph_node_map.get failed
RECURSIVE apply_invert(_, _, _, _)
apply_invert(G, rs, todo, ch) ==
    IF todo = {}
    THEN [rs |-> rs, changed |-> ch, panicked |-> FALSE]
    ELSE LET t == CHOOSE t \in todo : TRUE
             node == inverted_node(G.nodes[t[3]])
         IN  IF node \notin DOMAIN G.map
             THEN [rs |-> rs, changed |-> ch, panicked |-> TRUE]
             ELSE LET a == add_reaching(rs, G.map[node], <<t[2], t[1]>>)
                  IN  apply_invert(G, a.rs, todo \ {t}, ch \/ a.inserted)

\* the graph as the variables hold it
Graph == [nodes |-> nodes, edges |-> edges, map |-> graph_node_map]

\* the number of reaching-set entries plus the number of edges: what a pass can grow
Size(rs, es) ==
    Cardinality(UNION {{<<n, entry>> : entry \in rs[n]} : n \in DOMAIN rs}) + Len(es)

OneEdges(es) == {<<es[i].source, es[i].target>> : i \in {j \in 1..Len(es) : es[j].label.kind = "One"}}

-----------------------------------------------------------------------------
(* solver.rs: infer_shapes. A step-graph node is [dtv, represent]; represent *)
(* is a NodeIndex, or 0 for None.                                            *)

NoRepresent == 0

ShapeNode(dtv) == [dtv |-> dtv, represent |-> NoRepresent]

\* the walk of find_equiv_group's while loop; it never ends once it is back at a
\* node it has left (diverged)
RECURSIVE find_walk(_, _, _)
find_walk(gn, ind, vec) ==
    IF gn[ind].represent # NoRepresent /\ gn[ind].represent # ind
    THEN IF \E k \in 1..Len(vec) : vec[k] = ind
         THEN [ret |-> ind, vec |-> vec, diverged |-> TRUE]
         ELSE find_walk(gn, gn[ind].represent, Append(vec, ind))
    ELSE [ret |-> ind, vec |-> vec, diverged |-> FALSE]

\* returns the nodes after path compression, the representative, and whether the
\* call fails to return
find_equiv_group(gn, ind) ==
    LET w == find_walk(gn, ind, <<>>)
    IN  [nodes |-> [n \in 1..Len(gn) |->
                       IF (\E k \in 1..Len(w.vec) : w.vec[k] = n) /\ n # w.ret /\ ~w.diverged
                       THEN [gn[n] EXCEPT !.represent = w.ret]
                       ELSE gn[n]],
         ret |-> w.ret,
         diverged |-> w.diverged]

\* petgraph's edges_directed(a, Outgoing): a's outgoing edges, the newest first
RECURSIVE edges_directed(_, _, _)
edges_directed(ge, a, i) ==
    IF i = 0
    THEN <<>>
    ELSE IF ge[i].source = a
         THEN <<ge[i]>> \o edges_directed(ge, a, i - 1)
         ELSE edges_directed(ge, a, i - 1)

\* the test of lines 71-73
labels_unify(label_x, label_y) ==
    \/ label_x = label_y
    \/ (label_x = Load /\ label_y = Store)
    \/ (label_x = Store /\ label_y = Load)

\* lines 66-92: the two nested loops over the outgoing edges ex of x and ey of y
RECURSIVE to_unify_from(_, _, _, _)
to_unify_from(ex, ey, i, j) ==
    IF i > Len(ex) THEN <<>>
    ELSE IF j > Len(ey) THEN to_unify_from(ex, ey, i + 1, 1)
    ELSE IF labels_unify(ex[i].label, ey[j].label)
         THEN <<<<ex[i].target, ey[j].target>>>> \o to_unify_from(ex, ey, i, j + 1)
         ELSE to_unify_from(ex, ey, i, j + 1)

\* lines 65-92: the pairs of targets, in the order of the two nested loops
to_unify(ge, x, y) ==
    to_unify_from(edges_directed(ge, x, Len(ge)), edges_directed(ge, y, Len(ge)), 1, 1)

\* returns the nodes after unify(g, x, y)
RECURSIVE unify(_, _, _, _)
RECURSIVE unify_all(_, _, _, _)
unify(gn, ge, x, y) ==
    IF x # y
    THEN unify_all([gn EXCEPT ![y].represent = x], ge, to_unify(ge, x, y), 1)
    ELSE gn

\* lines 93-95
unify_all(gn, ge, pairs, k) ==
    IF k > Len(pairs)
    THEN gn
    ELSE unify_all(unify(gn, ge, pairs[k][1], pairs[k][2]), ge, pairs, k + 1)

\* `if !gm.contains_key(dtv) { add the node } else { find_equiv_group(gm[dtv]) }`
\* of lines 121-131 and 138-148: returns the graph and the node's index
node_of(S, dtv) ==
    IF dtv \notin DOMAIN S.gm
    THEN [s |-> [S EXCEPT !.nodes = Append(@, ShapeNode(dtv)),
                          !.gm = (dtv :> Len(S.nodes) + 1) @@ @],
          index |-> Len(S.nodes) + 1]
    ELSE LET f == find_equiv_group(S.nodes, S.gm[dtv])
         IN  [s |-> [S EXCEPT !.nodes = f.nodes], index |-> f.ret]

\* add_steps without the test of lines 150-153 for an edge already there
RECURSIVE add_steps_unchecked(_, _, _, _)
add_steps_unchecked(S, c, i, prev_id) ==
    IF i > Len(c.fields)
    THEN S
    ELSE LET l == IF i = 1
                  THEN node_of(S, get_sub_dtv(c, i - 1))
                  ELSE [s |-> S, index |-> prev_id]
             r == node_of(l.s, get_sub_dtv(c, i))
             S2 == [r.s EXCEPT !.edges = Append(@, Edge(l.index, r.index, c.fields[i]))]
         IN  add_steps_unchecked(S2, c, i + 1, r.index)

\* lines 116-157: the loop over the prefixes of c
RECURSIVE add_steps(_, _, _, _)
add_steps(S, c, i, prev_id) ==
    IF i > Len(c.fields)
    THEN S
    ELSE LET l == IF i = 1
                  THEN node_of(S, get_sub_dtv(c, i - 1))
                  ELSE [s |-> S, index |-> prev_id]
             r == node_of(l.s, get_sub_dtv(c, i))
             e == Edge(l.index, r.index, c.fields[i])
             S2 == IF \E k \in 1..Len(r.s.edges) : r.s.edges[k] = e
                   THEN r.s
                   ELSE [r.s EXCEPT !.edges = Append(@, e)]
         IN  add_steps(S2, c, i + 1, r.index)

\* add_dtv without the case `c.fields.len() == 0` of lines 105-114
add_dtv_fields_only(S, c) == add_steps(S, c, 1, 0)

\* lines 103-157: one side of a constraint
add_dtv(S, c) ==
    LET S1 == IF Len(c.fields) = 0 /\ c \notin DOMAIN S.gm
              THEN [S EXCEPT !.nodes = Append(@, ShapeNode(c)),
                             !.gm = (c :> Len(S.nodes) + 1) @@ @]
              ELSE S
    IN  add_steps(S1, c, 1, 0)

\* quotient_nodes without the `node2.push` of lines 190-194
RECURSIVE quotient_nodes_unpushed(_, _, _)
quotient_nodes_unpushed(gn, Q, ind) ==
    IF ind > Len(gn)
    THEN [nodes |-> gn, q |-> Q, diverged |-> FALSE]
    ELSE LET f == find_equiv_group(gn, ind)
         IN  IF f.diverged
             THEN [nodes |-> gn, q |-> Q, diverged |-> TRUE]
             ELSE IF f.ret \notin DOMAIN Q.gm
                  THEN quotient_nodes_unpushed(f.nodes,
                                               [nodes |-> Append(Q.nodes, <<gn[ind].dtv>>),
                                                gm |-> (f.ret :> Len(Q.nodes) + 1) @@ Q.gm],
                                               ind + 1)
                  ELSE quotient_nodes_unpushed(f.nodes, Q, ind + 1)

\* lines 182-196: the quotient nodes; S holds g's nodes, Q the quotient graph's
\* nodes and gm_quotient
RECURSIVE quotient_nodes(_, _, _)
quotient_nodes(gn, Q, ind) ==
    IF ind > Len(gn)
    THEN [nodes |-> gn, q |-> Q, diverged |-> FALSE]
    ELSE LET f == find_equiv_group(gn, ind)
         IN  IF f.diverged
             THEN [nodes |-> gn, q |-> Q, diverged |-> TRUE]
             ELSE IF f.ret \notin DOMAIN Q.gm
                  THEN quotient_nodes(f.nodes,
                                      [nodes |-> Append(Q.nodes, <<gn[ind].dtv>>),
                                       gm |-> (f.ret :> Len(Q.nodes) + 1) @@ Q.gm],
                                      ind + 1)
                  ELSE quotient_nodes(f.nodes,
                                      [Q EXCEPT !.nodes[Q.gm[f.ret]] = Append(@, gn[ind].dtv)],
                                      ind + 1)

\* lines 198-211: the quotient edges
RECURSIVE quotient_edges(_, _, _, _, _)
quotient_edges(gn, ge, gmq, qe, k) ==
    IF k > Len(ge)
    THEN [nodes |-> gn, edges |-> qe, diverged |-> FALSE]
    ELSE LET fs == find_equiv_group(gn, ge[k].source)
             ft == find_equiv_group(fs.nodes, ge[k].target)
         IN  IF fs.diverged \/ ft.diverged
             THEN [nodes |-> gn, edges |-> qe, diverged |-> TRUE]
             ELSE quotient_edges(ft.nodes, ge, gmq,
                                 Append(qe, Edge(gmq[fs.ret], gmq[ft.ret], ge[k].label)),
                                 k + 1)

\* lines 99-160 as one loop: step 1 over the constraints cs from the i-th on
RECURSIVE step_graph_from(_, _, _)
step_graph_from(S, cs, i) ==
    IF i > Len(cs)
    THEN S
    ELSE step_graph_from(add_dtv(add_dtv(S, cs[i].left), cs[i].right), cs, i + 1)

\* lines 168-176 as one loop: step 2 over the constraints cs from the i-th on
RECURSIVE unify_from(_, _, _, _, _)
unify_from(gn, ge, m, cs, i) ==
    IF i > Len(cs)
    THEN [nodes |-> gn, diverged |-> FALSE]
    ELSE LET fx == find_equiv_group(gn, m[cs[i].left])
             fy == find_equiv_group(fx.nodes, m[cs[i].right])
         IN  IF fx.diverged \/ fy.diverged
             THEN [nodes |-> gn, diverged |-> TRUE]
             ELSE unify_from(unify(fy.nodes, ge, fx.ret, fy.ret), ge, m, cs, i + 1)

\* infer_shapes on the constraints cs, up to the nodes of the quotient graph:
\* whether it fails to return, and the lists of DTVs of the quotient nodes
infer_shapes(cs) ==
    LET S == step_graph_from([nodes |-> <<>>, edges |-> <<>>, gm |-> <<>>], cs, 1)
        u == unify_from(S.nodes, S.edges, S.gm, cs, 1)
        q == quotient_nodes(u.nodes, [nodes |-> <<>>, gm |-> <<>>], 1)
    IN  [diverged |-> u.diverged \/ q.diverged,
         g_quotient |-> IF u.diverged \/ q.diverged THEN <<>> ELSE q.q.nodes]

-----------------------------------------------------------------------------
(* the inputs *)

MaxCons == 2
MaxTestCons == 4

Var(name) == DerivedTypeVariable(name, <<>>)
Field(name, label) == DerivedTypeVariable(name, <<label>>)

GenericDTVs ==
    {Var("x"), Var("y"), Var("p"), Field("x", Store), Field("y", Load), Field("x", Load)}

GenericConstraints == {Constraint(l, r) : l \in GenericDTVs, r \in GenericDTVs}

\* the constraints of tests::test_saturation
TestSaturation ==
    <<Constraint(Var("y"), Var("p")),
      Constraint(Var("p"), Var("x")),
      Constraint(Var("_A"), Field("x", Store)),
      Constraint(Field("y", Load), Var("_B"))>>

SeqsUpTo(S, n) == UNION {[1..k -> S] : k \in 1..n}

MaxDeepCons == 2

\* constraints between variables with field paths of length two
DeepConstraints ==
    {Constraint(DerivedTypeVariable("x", <<Load, InPattern("0")>>), Var("y")),
     Constraint(Var("y"), DerivedTypeVariable("x", <<Store, OutPattern("0")>>)),
     Constraint(DerivedTypeVariable("f", <<InPattern("0"), Load>>),
                DerivedTypeVariable("f", <<OutPattern("0"), Store>>)),
     Constraint(Field("x", Load), DerivedTypeVariable("x", <<Load, InPattern("0")>>))}

GraphInputs ==
    SeqsUpTo(GenericConstraints, MaxCons)
    \cup SeqsUpTo({TestSaturation[i] : i \in 1..Len(TestSaturation)}, MaxTestCons)
    \cup SeqsUpTo(DeepConstraints, MaxDeepCons)

MaxShapeCons == 3

ShapeDTVs ==
    {Var("a"), Var("b"), Var("c"), Field("a", Load), Field("b", Load), Field("b", Store)}

ShapeInputs ==
    SeqsUpTo({Constraint(l, r) : l \in ShapeDTVs, r \in ShapeDTVs}, MaxShapeCons)
    \cup SeqsUpTo(DeepConstraints, MaxDeepCons)

-----------------------------------------------------------------------------
(* ConstraintGraph::new *)

ShapeIdle ==
    /\ g_nodes = <<>>
    /\ g_edges = <<>>
    /\ gm = <<>>
    /\ next_c = 1
    /\ g_quotient = <<>>
    /\ gq_edges = <<>>
    /\ gm_quotient = <<>>

SchedIdle ==
    /\ call_graph = [nodes |-> <<>>, edges |-> {}]
    /\ proc_constraints = <<>>
    /\ type_schemes = {}
    /\ sccs = <<>>
    /\ topo_sort = <<>>
    /\ sched_pos = 0
    /\ handed = <<>>

TextIdle ==
    /\ dtv_in = DerivedTypeVariable("", <<>>)
    /\ text = <<>>
    /\ parsed = None

GraphIdle ==
    /\ next_b = 1
    /\ nodes = <<>>
    /\ edges = <<>>
    /\ graph_node_map = <<>>
    /\ reaching_set = <<>>
    /\ changed = FALSE
    /\ passes = 0
    /\ pass_start_size = 0
    /\ r_one = {}
    /\ r_reach = <<>>

\* ConstraintGraph::new, lines 119-122: the empty graph, build_initial_graph about
\* to start
Init ==
    /\ constraints \in GraphInputs
    /\ pc = "build"
    /\ GraphIdle
    /\ ShapeIdle
    /\ SchedIdle
    /\ TextIdle

\* build_initial_graph, lines 191-211: the next constraint, covariant half
BuildCovariant ==
    /\ pc = "build"
    /\ next_b <= Len(constraints)
    /\ LET G == build_covariant(Graph, constraints[next_b])
       IN  /\ nodes' = G.nodes
           /\ edges' = G.edges
           /\ graph_node_map' = G.map
    /\ pc' = "build_contravariant"
    /\ UNCHANGED <<constraints, next_b, reaching_set, changed, passes, pass_start_size>>
    /\ UNCHANGED rule_vars
    /\ UNCHANGED shape_vars
    /\ UNCHANGED sched_vars
    /\ UNCHANGED text_vars

\* build_initial_graph, lines 214-233: the same constraint, contravariant half
BuildContravariant ==
    /\ pc = "build_contravariant"
    /\ LET G == build_contravariant(Graph, constraints[next_b])
       IN  /\ nodes' = G.nodes
           /\ edges' = G.edges
           /\ graph_node_map' = G.map
    /\ next_b' = next_b + 1
    /\ pc' = IF next_b + 1 > Len(constraints) THEN "saturate" ELSE "build"
    /\ UNCHANGED <<constraints, reaching_set, changed, passes, pass_start_size>>
    /\ UNCHANGED rule_vars
    /\ UNCHANGED shape_vars
    /\ UNCHANGED sched_vars
    /\ UNCHANGED text_vars

\* saturate, lines 237-257: the locals, the seeding, the first test of the loop
SatSeed ==
    /\ pc = "saturate"
    /\ LET s == seed_from(edges_of_kind(Graph, "Forget"), [n \in 1..Len(nodes) |-> {}], FALSE, 1)
       IN  /\ reaching_set' = s.rs
           /\ changed' = s.changed
           /\ pc' = IF s.changed THEN "propagate" ELSE "done"
    /\ r_one' = OneEdges(edges)
    /\ r_reach' = [n \in 1..Len(nodes) |-> {}]
    /\ UNCHANGED <<constraints, next_b, nodes, edges, graph_node_map, passes, pass_start_size>>
    /\ UNCHANGED shape_vars
    /\ UNCHANGED sched_vars
    /\ UNCHANGED text_vars

\* saturate, lines 258-269: a pass begins; the sweep over the One edges
SatPropagate ==
    /\ pc = "propagate"
    /\ passes' = passes + 1
    /\ pass_start_size' = Size(reaching_set, edges)
    /\ LET s == propagate_from(edges_of_kind(Graph, "One"), reaching_set, FALSE, 1)
       IN  /\ reaching_set' = s.rs
           /\ changed' = s.changed
    /\ pc' = "cancel"
    /\ UNCHANGED <<constraints, next_b, nodes, edges, graph_node_map>>
    /\ UNCHANGED rule_vars
    /\ UNCHANGED shape_vars
    /\ UNCHANGED sched_vars
    /\ UNCHANGED text_vars

\* saturate, lines 270-287: the sweep over the Recall edges, then the new One edges
SatCancel ==
    /\ pc = "cancel"
    /\ \E to_add \in to_add_from(edges_of_kind(Graph, "Recall"), reaching_set, 1) :
          LET s == add_edges_from(Graph, to_add, changed, 1)
          IN  /\ edges' = s.g.edges
              /\ changed' = s.changed
    /\ pc' = "invert"
    /\ UNCHANGED <<constraints, next_b, nodes, graph_node_map, reaching_set, passes, pass_start_size>>
    /\ UNCHANGED rule_vars
    /\ UNCHANGED shape_vars
    /\ UNCHANGED sched_vars
    /\ UNCHANGED text_vars

\* saturate, lines 288-316 and 257: the inversion, then the test of the loop
SatInvert ==
    /\ pc = "invert"
    /\ LET s == apply_invert(Graph, reaching_set, to_add_invert(Graph, reaching_set), changed)
       IN  /\ reaching_set' = s.rs
           /\ changed' = s.changed
           /\ pc' = IF s.panicked THEN "panic"
                    ELSE IF s.changed THEN "propagate" ELSE "done"
    /\ UNCHANGED <<constraints, next_b, nodes, edges, graph_node_map, passes, pass_start_size>>
    /\ UNCHANGED rule_vars
    /\ UNCHANGED shape_vars
    /\ UNCHANGED sched_vars
    /\ UNCHANGED text_vars

Next ==
    \/ BuildCovariant
    \/ BuildContravariant
    \/ SatSeed
    \/ SatPropagate
    \/ SatCancel
    \/ SatInvert

Spec == Init /\ [][Next]_vars

-----------------------------------------------------------------------------
(* Solver::infer_shapes. The program's constraints are the list `constraints`, *)
(* in the order the loops over proc_constraints meet them.                     *)

InitShapes ==
    /\ constraints \in ShapeInputs
    /\ pc = "shapes"
    /\ GraphIdle
    /\ ShapeIdle
    /\ SchedIdle
    /\ TextIdle

\* the step graph as the variables hold it
StepGraphNow == [nodes |-> g_nodes, edges |-> g_edges, gm |-> gm]

\* lines 99-160: step 1, the two sides of one constraint
StepGraph ==
    /\ pc = "shapes"
    /\ next_c <= Len(constraints)
    /\ LET S == add_dtv(add_dtv(StepGraphNow, constraints[next_c].left),
                        constraints[next_c].right)
       IN  /\ g_nodes' = S.nodes
           /\ g_edges' = S.edges
           /\ gm' = S.gm
    /\ next_c' = IF next_c + 1 > Len(constraints) THEN 1 ELSE next_c + 1
    /\ pc' = IF next_c + 1 > Len(constraints) THEN "unify" ELSE "shapes"
    /\ UNCHANGED <<constraints, g_quotient, gq_edges, gm_quotient>>
    /\ UNCHANGED graph_vars
    /\ UNCHANGED rule_vars
    /\ UNCHANGED sched_vars
    /\ UNCHANGED text_vars

\* lines 168-176: step 2, one constraint
UnifyConstraint ==
    /\ pc = "unify"
    /\ next_c <= Len(constraints)
    /\ LET c == constraints[next_c]
           fx == find_equiv_group(g_nodes, gm[c.left])
           fy == find_equiv_group(fx.nodes, gm[c.right])
       IN  IF fx.diverged \/ fy.diverged
           THEN /\ pc' = "hang"
                /\ UNCHANGED <<g_nodes, next_c>>
           ELSE /\ g_nodes' = unify(fy.nodes, g_edges, fx.ret, fy.ret)
                /\ next_c' = next_c + 1
                /\ pc' = "unify"
    /\ UNCHANGED <<constraints, g_edges, gm, g_quotient, gq_edges, gm_quotient>>
    /\ UNCHANGED graph_vars
    /\ UNCHANGED rule_vars
    /\ UNCHANGED sched_vars
    /\ UNCHANGED text_vars

\* lines 177-196: step 3, the quotient graph's nodes
QuotientNodes ==
    /\ pc = "unify"
    /\ next_c > Len(constraints)
    /\ LET r == quotient_nodes(g_nodes, [nodes |-> <<>>, gm |-> <<>>], 1)
       IN  IF r.diverged
           THEN /\ pc' = "hang"
                /\ UNCHANGED <<g_nodes, g_quotient, gm_quotient>>
           ELSE /\ g_nodes' = r.nodes
                /\ g_quotient' = r.q.nodes
                /\ gm_quotient' = r.q.gm
                /\ pc' = "quotient_edges"
    /\ UNCHANGED <<constraints, g_edges, gm, next_c, gq_edges>>
    /\ UNCHANGED graph_vars
    /\ UNCHANGED rule_vars
    /\ UNCHANGED sched_vars
    /\ UNCHANGED text_vars

\* lines 198-211: step 3, the quotient graph's edges
QuotientEdges ==
    /\ pc = "quotient_edges"
    /\ LET r == quotient_edges(g_nodes, g_edges, gm_quotient, <<>>, 1)
       IN  IF r.diverged
           THEN /\ pc' = "hang"
                /\ UNCHANGED <<g_nodes, gq_edges>>
           ELSE /\ g_nodes' = r.nodes
                /\ gq_edges' = r.edges
                /\ pc' = "shapes_done"
    /\ UNCHANGED <<constraints, g_edges, gm, next_c, g_quotient, gm_quotient>>
    /\ UNCHANGED graph_vars
    /\ UNCHANGED rule_vars
    /\ UNCHANGED sched_vars
    /\ UNCHANGED text_vars

NextShapes ==
    \/ StepGraph
    \/ UnifyConstraint
    \/ QuotientNodes
    \/ QuotientEdges

SpecShapes == InitShapes /\ [][NextShapes]_vars

-----------------------------------------------------------------------------
(* graph.rs: infer_proc_types. The call graph is [nodes, edges]: the procedure *)
(* names by NodeIndex and the set of (caller, callee) pairs of indices. The    *)
(* results of petgraph's condensation and toposort are any that their          *)
(* contracts allow.                                                            *)

MaxProcs == 3
MaxCalls == 3

ProcNames == <<"f", "g", "h", "k">>

\* the call graphs constraints_from_json builds: one node per name, any calls
CallGraphs ==
    UNION {{[nodes |-> SubSeq(ProcNames, 1, n), edges |-> E] :
               E \in {D \in SUBSET ((1..n) \X (1..n)) : Cardinality(D) <= MaxCalls}} :
           n \in {m \in 1..MaxProcs : m <= Len(ProcNames)}}

\* two maps from procedure name to constraint list
ProcConstraints ==
    {[name \in Range(ProcNames) |->
         CASE name = "f" -> <<Constraint(Var("y"), Var("p")), Constraint(Var("p"), Var("x"))>>
           [] name = "g" -> <<Constraint(Var("_A"), Field("x", Store)),
                              Constraint(Field("y", Load), Var("_B"))>>
           [] name = "h" -> <<>>
           [] OTHER -> <<Constraint(Var("x"), Var("x"))>>],
     [name \in Range(ProcNames) |->
         CASE name = "f" -> <<>>
           [] name = "g" -> <<Constraint(Field("y", Load), Var("_B"))>>
           [] name = "h" -> <<Constraint(Var("y"), Var("x")),
                              Constraint(Var("_A"), Field("x", Store))>>
           [] OTHER -> <<Constraint(Var("y"), Var("p"))>>]}

\* the node indices reachable from those of S
RECURSIVE reachable(_, _)
reachable(G, S) ==
    LET T == S \cup {e[2] : e \in {d \in G.edges : d[1] \in S}}
    IN  IF T = S THEN S ELSE reachable(G, T)

\* the strongly connected component of node a
scc_of(G, a) ==
    {b \in 1..Len(G.nodes) : b \in reachable(G, {a}) /\ a \in reachable(G, {b})}

\* the members of a component in the order of their node indices
RECURSIVE members(_, _)
members(G, comp) ==
    IF comp = {}
    THEN <<>>
    ELSE LET m == CHOOSE m \in comp : \A o \in comp : m <= o
         IN  <<G.nodes[m]>> \o members(G, comp \ {m})

\* condensation(call_graph, true): the node weights of the condensed graph, one
\* Vec of names per strongly connected component, the components in any order
condensation(G) ==
    {[k \in 1..Len(order) |-> members(G, order[k])] :
        order \in iteration_orders({scc_of(G, a) : a \in 1..Len(G.nodes)})}

\* the edges of the condensed graph: (i, j) when a member of component i calls a
\* member of another component j
condensed_edges(G, comps) ==
    {ij \in (1..Len(comps)) \X (1..Len(comps)) :
        /\ ij[1] # ij[2]
        /\ \E e \in G.edges : /\ G.nodes[e[1]] \in Range(comps[ij[1]])
                              /\ G.nodes[e[2]] \in Range(comps[ij[2]])}

\* toposort(&sccs, None).unwrap(): the orders of the condensed graph's nodes in
\* which every edge leads from an earlier node to a later one
toposort(G, comps) ==
    {t \in iteration_orders(1..Len(comps)) :
        \A ij \in condensed_edges(G, comps) :
            \A a \in 1..Len(t), b \in 1..Len(t) :
                (t[a] = ij[1] /\ t[b] = ij[2]) => a < b}

\* the order forward, where the code has topo_sort.iter().rev()
schedule_forward(t) == t

\* topo_sort.iter().rev()
schedule(t) == [k \in 1..Len(t) |-> t[Len(t) + 1 - k]]

\* the constraints of the first procedure of the component only
collect_first_only(pcs, procs, i) ==
    IF i > Len(procs) THEN <<>> ELSE pcs[procs[i]]

\* lines 332-338: the constraints of the procedures of one component
RECURSIVE collect(_, _, _)
collect(pcs, procs, i) ==
    IF i > Len(procs)
    THEN <<>>
    ELSE pcs[procs[i]] \o collect(pcs, procs, i + 1)

InitSched ==
    /\ call_graph \in CallGraphs
    /\ proc_constraints \in ProcConstraints
    /\ type_schemes = {}
    /\ sccs = <<>>
    /\ topo_sort = <<>>
    /\ sched_pos = 0
    /\ handed = <<>>
    /\ constraints = <<>>
    /\ pc = "sched"
    /\ GraphIdle
    /\ ShapeIdle
    /\ TextIdle

\* lines 321-326: the condensation and its topological order
Condense ==
    /\ pc = "sched"
    /\ \E comps \in condensation(call_graph) :
          /\ sccs' = comps
          /\ \E t \in toposort(call_graph, comps) : topo_sort' = t
    /\ sched_pos' = 1
    /\ pc' = "collect"
    /\ UNCHANGED <<constraints, call_graph, proc_constraints, type_schemes, handed>>
    /\ UNCHANGED graph_vars
    /\ UNCHANGED rule_vars
    /\ UNCHANGED shape_vars
    /\ UNCHANGED text_vars

\* lines 327-340: the next component, its constraints, the call of
\* ConstraintGraph::new with a graph of its own
Collect ==
    /\ pc = "collect"
    /\ sched_pos <= Len(topo_sort)
    /\ LET ind == schedule(topo_sort)[sched_pos]
       IN  IF \E proc \in Range(sccs[ind]) : proc \in type_schemes
           THEN /\ pc' = "assert_failed"
                /\ UNCHANGED <<constraints, handed>>
           ELSE LET cs == collect(proc_constraints, sccs[ind], 1)
                IN  /\ constraints' = cs
                    /\ handed' = Append(handed, [ind |-> ind, procs |-> sccs[ind],
                                                 constraints |-> cs, returned |-> FALSE])
                    /\ pc' = IF cs = <<>> THEN "saturate" ELSE "build"
    /\ next_b' = 1
    /\ nodes' = <<>>
    /\ edges' = <<>>
    /\ graph_node_map' = <<>>
    /\ reaching_set' = <<>>
    /\ changed' = FALSE
    /\ passes' = 0
    /\ pass_start_size' = 0
    /\ UNCHANGED <<call_graph, proc_constraints, type_schemes, sccs, topo_sort, sched_pos>>
    /\ UNCHANGED rule_vars
    /\ UNCHANGED shape_vars
    /\ UNCHANGED text_vars

\* lines 340-343: ConstraintGraph::new has returned, cg is dropped, the loop goes on
Return ==
    /\ pc = "done"
    /\ sched_pos >= 1
    /\ sched_pos' = sched_pos + 1
    /\ pc' = IF sched_pos + 1 > Len(topo_sort) THEN "sched_done" ELSE "collect"
    /\ handed' = [handed EXCEPT ![Len(handed)].returned = TRUE]
    /\ UNCHANGED <<constraints, call_graph, proc_constraints, type_schemes, sccs, topo_sort>>
    /\ UNCHANGED graph_vars
    /\ UNCHANGED rule_vars
    /\ UNCHANGED shape_vars
    /\ UNCHANGED text_vars

NextSched ==
    \/ Condense
    \/ Collect
    \/ Return
    \/ Next

SpecSched == InitSched /\ [][NextSched]_vars

-----------------------------------------------------------------------------
(* schema.rs: Display; parser.rs: parse_derived_type_variable. A text is a    *)
(* sequence of characters, each a string of length one; Sigma stands for the  *)
(* one character U+03C3. Strings that are looked into (names, the index of an *)
(* in_ or out_ label) are converted by CharsOf and StringOf. The numbers of   *)
(* the model stay far below u32::MAX and i32::MAX, so the str::parse of a     *)
(* digit string does not fail.                                                *)

Sigma == "sigma"

DigitChars == <<"0", "1", "2", "3", "4", "5", "6", "7", "8", "9">>

IsDigit(c) == \E d \in 1..Len(DigitChars) : DigitChars[d] = c

digit_value(c) == (CHOOSE d \in 1..Len(DigitChars) : DigitChars[d] = c) - 1

\* the characters of the strings of the model
StringChars ==
    ("x" :> <<"x">>) @@ ("ab" :> <<"a", "b">>)
    @@ ("0" :> <<"0">>) @@ ("7" :> <<"7">>) @@ ("12" :> <<"1", "2">>)

CharsOf(str) == StringChars[str]

\* the String of a sequence of characters; "?" for one that is none of the model's
StringOf(cs) ==
    IF \E str \in DOMAIN StringChars : StringChars[str] = cs
    THEN CHOOSE str \in DOMAIN StringChars : StringChars[str] = cs
    ELSE "?"

\* schema.rs: FieldLabel::DerefPattern and Bound
DerefPattern(size, offset, bound) ==
    [tag |-> "DerefPattern", size |-> size, offset |-> offset, bound |-> bound]

Fixed(n) == [kind |-> "Fixed", n |-> n]
NullTerm == [kind |-> "NullTerm"]
NoBound == [kind |-> "NoBound"]

\* Display of u32
RECURSIVE display_u32(_)
display_u32(n) ==
    IF n < Len(DigitChars)
    THEN <<DigitChars[n + 1]>>
    ELSE display_u32(n \div Len(DigitChars)) \o <<DigitChars[(n % Len(DigitChars)) + 1]>>

\* Display of i32
display_i32(n) == IF n < 0 THEN <<"-">> \o display_u32(0 - n) ELSE display_u32(n)

\* impl Display for Bound
display_bound(b) ==
    CASE b.kind = "Fixed" -> <<"*", "[">> \o display_u32(b.n) \o <<"]">>
      [] b.kind = "NullTerm" -> <<"n", "u", "l", "l", "t", "e", "r", "m">>
      [] b.kind = "NoBound" -> <<"n", "o", "b", "o", "u", "n", "d">>

\* impl Display for FieldLabel
display_label(label) ==
    CASE label.tag = "InPattern" -> <<"i", "n", "_">> \o CharsOf(label.id)
      [] label.tag = "OutPattern" -> <<"o", "u", "t", "_">> \o CharsOf(label.id)
      [] label.tag = "DerefPattern" ->
            <<Sigma>> \o display_u32(label.size) \o <<"@">> \o display_i32(label.offset)
            \o (IF label.bound.some THEN display_bound(label.bound.val) ELSE <<>>)
      [] label.tag = "Load" -> <<"l", "o", "a", "d">>
      [] label.tag = "Store" -> <<"s", "t", "o", "r", "e">>

\* impl Display for DerivedTypeVariable, the fields from the i-th on
RECURSIVE display_fields(_, _)
display_fields(fields, i) ==
    IF i > Len(fields)
    THEN <<>>
    ELSE <<".">> \o display_label(fields[i]) \o display_fields(fields, i + 1)

display_dtv(dtv) == CharsOf(dtv.name) \o display_fields(dtv.fields, 1)

\* a nom result: Ok((rest, val)) or Err
ParseOk(rest, val) == [ok |-> TRUE, rest |-> rest, val |-> val]
ParseErr == [ok |-> FALSE, rest |-> <<>>, val |-> <<>>]

Drop(input, n) == SubSeq(input, n + 1, Len(input))

\* nom's tag and char
tag(t, input) ==
    IF Len(input) >= Len(t) /\ SubSeq(input, 1, Len(t)) = t
    THEN ParseOk(Drop(input, Len(t)), t)
    ELSE ParseErr

\* the length of the longest prefix of digits of input, from position i on
RECURSIVE digits_from(_, _)
digits_from(input, i) ==
    IF i <= Len(input) /\ IsDigit(input[i]) THEN 1 + digits_from(input, i + 1) ELSE 0

\* the number a string of digits stands for
RECURSIVE number_of(_, _)
number_of(ds, acc) ==
    IF ds = <<>> THEN acc
    ELSE number_of(Tail(ds), acc * Len(DigitChars) + digit_value(Head(ds)))

\* map_res(digit1, |s| s.parse::<u32>())
parse_u32(input) ==
    LET n == digits_from(input, 1)
    IN  IF n = 0 THEN ParseErr
        ELSE ParseOk(Drop(input, n), number_of(SubSeq(input, 1, n), 0))

\* parser.rs lines 74-80
parse_i32(input) ==
    LET minus == tag(<<"-">>, input)
        body == parse_u32(IF minus.ok THEN minus.rest ELSE input)
    IN  IF ~body.ok THEN ParseErr
        ELSE ParseOk(body.rest, IF minus.ok THEN 0 - body.val ELSE body.val)

\* lines 86-90: the characters up to the first whitespace or '.'
RECURSIVE identifier_length(_, _)
identifier_length(input, i) ==
    IF i <= Len(input) /\ input[i] \notin {".", " "}
    THEN 1 + identifier_length(input, i + 1)
    ELSE 0

parse_identifier(input) ==
    LET n == identifier_length(input, 1)
    IN  IF n = 0 THEN ParseErr
        ELSE ParseOk(Drop(input, n), StringOf(SubSeq(input, 1, n)))

\* lines 92-97; the index goes into the label as the String of the number
parse_in_pattern(input) ==
    LET t == tag(<<"i", "n", "_">>, input)
        n == parse_u32(t.rest)
    IN  IF t.ok /\ n.ok
        THEN ParseOk(n.rest, InPattern(StringOf(display_u32(n.val))))
        ELSE ParseErr

\* lines 99-107
parse_out_pattern(input) ==
    LET t == tag(<<"o", "u", "t", "_">>, input)
        n == parse_u32(t.rest)
        bare == tag(<<"o", "u", "t">>, input)
    IN  IF t.ok /\ n.ok
        THEN ParseOk(n.rest, OutPattern(StringOf(display_u32(n.val))))
        ELSE IF bare.ok
             THEN ParseOk(bare.rest, OutPattern(StringOf(display_u32(0))))
             ELSE ParseErr

\* lines 114-122: opt(delimited(tag("*["), alt((nullterm, nobound, digits)), char(']')))
parse_bound(input) ==
    LET open == tag(<<"*", "[">>, input)
        nullterm == tag(<<"n", "u", "l", "l", "t", "e", "r", "m">>, open.rest)
        nobound == tag(<<"n", "o", "b", "o", "u", "n", "d">>, open.rest)
        fixed == parse_u32(open.rest)
        inner == IF nullterm.ok THEN ParseOk(nullterm.rest, NullTerm)
                 ELSE IF nobound.ok THEN ParseOk(nobound.rest, NoBound)
                 ELSE IF fixed.ok THEN ParseOk(fixed.rest, Fixed(fixed.val))
                 ELSE ParseErr
        close == tag(<<"]">>, inner.rest)
    IN  IF open.ok /\ inner.ok /\ close.ok
        THEN ParseOk(close.rest, Some(inner.val))
        ELSE ParseOk(input, None)

\* lines 109-130
parse_deref_pattern(input) ==
    LET s == tag(<<Sigma>>, input)
        base == parse_u32(s.rest)
        at == tag(<<"@">>, base.rest)
        offset == parse_i32(at.rest)
        bound == parse_bound(offset.rest)
    IN  IF s.ok /\ base.ok /\ at.ok /\ offset.ok
        THEN ParseOk(bound.rest, DerefPattern(base.val, offset.val, bound.val))
        ELSE ParseErr

\* lines 132-138
parse_load(input) ==
    LET t == tag(<<"l", "o", "a", "d">>, input)
    IN  IF t.ok THEN ParseOk(t.rest, Load) ELSE ParseErr

parse_store(input) ==
    LET t == tag(<<"s", "t", "o", "r", "e">>, input)
    IN  IF t.ok THEN ParseOk(t.rest, Store) ELSE ParseErr

\* lines 140-148: alt, the first parser that succeeds
parse_field_label(input) ==
    IF parse_in_pattern(input).ok THEN parse_in_pattern(input)
    ELSE IF parse_out_pattern(input).ok THEN parse_out_pattern(input)
    ELSE IF parse_deref_pattern(input).ok THEN parse_deref_pattern(input)
    ELSE IF parse_load(input).ok THEN parse_load(input)
    ELSE parse_store(input)

\* line 154: many0(preceded(char('.'), parse_field_label))
RECURSIVE parse_fields(_, _)
parse_fields(input, fields) ==
    LET dot == tag(<<".">>, input)
        label == parse_field_label(dot.rest)
    IN  IF dot.ok /\ label.ok
        THEN parse_fields(label.rest, Append(fields, label.val))
        ELSE ParseOk(input, fields)

\* lines 150-161
parse_derived_type_variable(input) ==
    LET identifier == parse_identifier(input)
        fields == parse_fields(identifier.rest, <<>>)
    IN  IF identifier.ok
        THEN ParseOk(fields.rest, DerivedTypeVariable(identifier.val, fields.val))
        ELSE ParseErr

MaxFields == 2

TextLabels ==
    {InPattern("0"), InPattern("12"), InPattern("x"), OutPattern("0"), OutPattern("7"),
     Load, Store,
     DerefPattern(4, 0, None), DerefPattern(4, 0 - 8, Some(Fixed(16))),
     DerefPattern(8, 12, Some(NullTerm)), DerefPattern(1, 0, Some(NoBound))}

TextDTVs ==
    {DerivedTypeVariable(name, fields) :
        name \in {"x", "ab"},
        fields \in UNION {[1..k -> TextLabels] : k \in 0..MaxFields}}

InitText ==
    /\ dtv_in \in TextDTVs
    /\ text = <<>>
    /\ parsed = None
    /\ constraints = <<>>
    /\ pc = "format"
    /\ GraphIdle
    /\ ShapeIdle
    /\ SchedIdle

\* format!("{}", v)
Format ==
    /\ pc = "format"
    /\ text' = display_dtv(dtv_in)
    /\ pc' = "parse"
    /\ UNCHANGED <<constraints, dtv_in, parsed>>
    /\ UNCHANGED graph_vars
    /\ UNCHANGED rule_vars
    /\ UNCHANGED shape_vars
    /\ UNCHANGED sched_vars

\* parse_derived_type_variable(text)
Parse ==
    /\ pc = "parse"
    /\ parsed' = parse_derived_type_variable(text)
    /\ pc' = "parsed"
    /\ UNCHANGED <<constraints, dtv_in, text>>
    /\ UNCHANGED graph_vars
    /\ UNCHANGED rule_vars
    /\ UNCHANGED shape_vars
    /\ UNCHANGED sched_vars

NextText ==
    \/ Format
    \/ Parse

SpecText == InitText /\ [][NextText]_vars

-----------------------------------------------------------------------------
(* what the claims speak of *)

Returned == pc = "done"

CovNode(dtv) == Node(dtv, Covariant, SideMarkNone)

\* a One edge joins the nodes a and b of the graph
HasOne(a, b) ==
    /\ a \in DOMAIN graph_node_map
    /\ b \in DOMAIN graph_node_map
    /\ <<graph_node_map[a], graph_node_map[b]>> \in OneEdges(edges)

\* pairs (i, j) of input constraints a <= b, b <= c
Chained == {ij \in (1..Len(constraints)) \X (1..Len(constraints)) :
               constraints[ij[1]].right = constraints[ij[2]].left}

\* C1 as the spec states it: for all constraints a <= b and b <= c supplied together,
\* the graph ConstraintGraph::new returns has a One edge from (a, Covariant) to
\* (c, Covariant).
C1_TransitiveEdge ==
    Returned =>
        \A ij \in Chained :
            HasOne(CovNode(constraints[ij[1]].left), CovNode(constraints[ij[2]].right))

\* C1 amended: for all constraints a <= b and b <= c supplied together, the returned
\* graph has the One edges (a, Covariant) -> (b, Covariant) and (b, Covariant) ->
\* (c, Covariant), a path of One edges from a to c; the single edge from a to c need
\* not be there.
C1_TransitivePath ==
    Returned =>
        \A ij \in Chained :
            /\ HasOne(CovNode(constraints[ij[1]].left), CovNode(constraints[ij[1]].right))
            /\ HasOne(CovNode(constraints[ij[2]].left), CovNode(constraints[ij[2]].right))

C1_Witness ==
    /\ Returned
    /\ \E ij \in Chained :
          /\ constraints[ij[1]].left # constraints[ij[2]].right
          /\ constraints[ij[1]].left # constraints[ij[1]].right
          /\ HasOne(CovNode(constraints[ij[1]].left), CovNode(constraints[ij[1]].right))
          /\ ~HasOne(CovNode(constraints[ij[1]].left), CovNode(constraints[ij[2]].right))

\* the base variables y reaches through constraints between base variables
BaseLe == {<<c.left.name, c.right.name>> :
              c \in {d \in Range(constraints) : d.left.fields = <<>> /\ d.right.fields = <<>>}}

RECURSIVE chain_from(_)
chain_from(S) ==
    LET T == S \cup {ab[2] : ab \in {e \in BaseLe : e[1] \in S}}
    IN  IF T = S THEN S ELSE chain_from(T)

InputNames == {c.left.name : c \in Range(constraints)} \cup {c.right.name : c \in Range(constraints)}

\* the (x, y) of C2: y <= p1 <= ... <= x, some constraint's right side is x.store,
\* some constraint's left side is y.load
StoreLoadPairs ==
    {xy \in InputNames \X InputNames :
        /\ xy[1] \in chain_from({xy[2]})
        /\ \E c \in Range(constraints) : c.right = Field(xy[1], Store)
        /\ \E c \in Range(constraints) : c.left = Field(xy[2], Load)}

\* C2: for a chain of zero or more base-variable constraints y <= ... <= x, a
\* constraint whose right side is x.store and one whose left side is y.load, the
\* returned graph has a One edge from (x.store, Covariant) to (y.load, Covariant).
C2_StoreLoad ==
    Returned =>
        \A xy \in StoreLoadPairs :
            HasOne(CovNode(Field(xy[1], Store)), CovNode(Field(xy[2], Load)))

\* the instance of tests::test_saturation
C2_Witness ==
    /\ Returned
    /\ constraints = TestSaturation
    /\ <<"x", "y">> \in StoreLoadPairs
    /\ HasOne(CovNode(Field("x", Store)), CovNode(Field("y", Load)))

\* saturate has added a One edge: build_initial_graph adds two per constraint
OneCount == Cardinality({i \in 1..Len(edges) : edges[i].label.kind = "One"})
AddedOne == OneCount > 2 * Len(constraints)

Capabilities == {edges[i].label.capability : i \in {j \in 1..Len(edges) : edges[j].label.kind = "Forget"}}
                \cup {Load, Store}

\* the number of possible (capability, node) entries over all nodes, plus the number
\* of possible One edges
DomainSize == Len(nodes) * Cardinality(Capabilities) * Len(nodes) + Len(nodes) * Len(nodes)

\* C6: every pass of saturate's while loop other than the last adds at least one
\* reaching-set entry or One edge, and the number of passes is bounded by the size
\* of the domain of reaching-set entries plus possible One edges.
C6_PassesGrow ==
    /\ (pc = "propagate" /\ passes > 0) => Size(reaching_set, edges) > pass_start_size
    /\ passes <= DomainSize + 1

C6_Witness ==
    /\ Returned
    /\ passes >= 3
    /\ AddedOne

\* C7: when saturate returns, the graph and the reaching sets are closed under the
\* seed, propagate, cancel (for n # b) and invert rules.
C7_Closed ==
    Returned =>
        /\ \A i \in 1..Len(edges) :
              edges[i].label.kind = "Forget" =>
                  <<edges[i].label.capability, edges[i].source>> \in reaching_set[edges[i].target]
        /\ \A i \in 1..Len(edges) :
              edges[i].label.kind = "One" =>
                  reaching_set[edges[i].source] \subseteq reaching_set[edges[i].target]
        /\ \A i \in 1..Len(edges) :
              edges[i].label.kind = "Recall" =>
                  \A entry \in reaching_set[edges[i].source] :
                      (entry[1] = edges[i].label.capability /\ entry[2] # edges[i].target)
                          => Edge(entry[2], edges[i].target, One) \in Range(edges)
        /\ \A n \in 1..Len(nodes) :
              nodes[n].suffix_variance = Contravariant =>
                  /\ inverted_node(nodes[n]) \in DOMAIN graph_node_map
                  /\ \A entry \in reaching_set[n] :
                        /\ entry[1] = Store =>
                              <<Load, entry[2]>> \in reaching_set[graph_node_map[inverted_node(nodes[n])]]
                        /\ entry[1] = Load =>
                              <<Store, entry[2]>> \in reaching_set[graph_node_map[inverted_node(nodes[n])]]

\* each rule has had a case: a seeded entry, a propagated one, a cancelled Recall
\* and both inversions
C7_Witness ==
    /\ Returned
    /\ AddedOne
    /\ \E n \in 1..Len(nodes) :
          /\ nodes[n].suffix_variance = Contravariant
          /\ \E entry \in reaching_set[n] : entry[1] = Store
    /\ \E n \in 1..Len(nodes) :
          /\ nodes[n].suffix_variance = Contravariant
          /\ \E entry \in reaching_set[n] : entry[1] = Load
    /\ \E i \in 1..Len(edges) :
          /\ edges[i].label.kind = "One"
          /\ reaching_set[edges[i].source] # {}

\* C8: no step of saturate removes an edge or a reaching-set entry.
C8_Monotone ==
    [][/\ Len(edges') >= Len(edges)
       /\ \A i \in 1..Len(edges) : edges'[i] = edges[i]
       /\ \A n \in DOMAIN reaching_set :
             /\ n \in DOMAIN reaching_set'
             /\ reaching_set[n] \subseteq reaching_set'[n]]_vars

\* saturate has run several passes and has grown both the edges and the reaching sets
C8_Witness ==
    /\ Returned
    /\ passes >= 2
    /\ AddedOne
    /\ \E n \in 1..Len(nodes) : Cardinality(reaching_set[n]) >= 2

-----------------------------------------------------------------------------
(* The rules of saturation applied one instance at a time, in any order, to *)
(* the graph build_initial_graph made: r_one and r_reach start as the One   *)
(* edges of that graph and empty reaching sets (set by SatSeed). This is    *)
(* the reference C9 compares saturate with; it runs once saturate returned. *)

\* (target, entry) pairs the seed rule can still add
SeedTodo ==
    {<<edges[i].target, <<edges[i].label.capability, edges[i].source>>>> :
        i \in {j \in 1..Len(edges) :
                  /\ edges[j].label.kind = "Forget"
                  /\ <<edges[j].label.capability, edges[j].source>> \notin r_reach[edges[j].target]}}

\* (target, entry) pairs the propagate rule can still add
PropagateTodo ==
    UNION {{<<ab[2], entry>> : entry \in r_reach[ab[1]] \ r_reach[ab[2]]} : ab \in r_one}

\* One edges the cancel rule can still add; like add_edge it adds no self-loop
CancelTodo ==
    UNION {{<<entry[2], edges[i].target>> :
               entry \in {x \in r_reach[edges[i].source] :
                             /\ x[1] = edges[i].label.capability
                             /\ x[2] # edges[i].target}} :
           i \in {j \in 1..Len(edges) : edges[j].label.kind = "Recall"}} \ r_one

Dual(cap) == IF cap = Store THEN Load ELSE Store

\* (target, entry) pairs the invert rule can still add
InvertTodo ==
    UNION {{<<graph_node_map[inverted_node(nodes[n])], <<Dual(entry[1]), entry[2]>>>> :
               entry \in {x \in r_reach[n] : x[1] \in {Load, Store}}} :
           n \in {m \in 1..Len(nodes) : nodes[m].suffix_variance = Contravariant}}
    \ {te \in (1..Len(nodes)) \X UNION Range(r_reach) : te[2] \in r_reach[te[1]]}

RuleAddEntry(todo) ==
    /\ pc = "done"
    /\ \E te \in todo : r_reach' = [r_reach EXCEPT ![te[1]] = @ \cup {te[2]}]
    /\ UNCHANGED <<constraints, pc, r_one>>
    /\ UNCHANGED graph_vars
    /\ UNCHANGED shape_vars
    /\ UNCHANGED sched_vars
    /\ UNCHANGED text_vars

RuleSeed == RuleAddEntry(SeedTodo)

RulePropagate == RuleAddEntry(PropagateTodo)

RuleInvert == RuleAddEntry(InvertTodo)

RuleCancel ==
    /\ pc = "done"
    /\ \E ab \in CancelTodo : r_one' = r_one \cup {ab}
    /\ UNCHANGED <<constraints, pc, r_reach>>
    /\ UNCHANGED graph_vars
    /\ UNCHANGED shape_vars
    /\ UNCHANGED sched_vars
    /\ UNCHANGED text_vars

NextRules ==
    \/ Next
    \/ RuleSeed
    \/ RulePropagate
    \/ RuleCancel
    \/ RuleInvert

SpecRules == Init /\ [][NextRules]_vars

\* no rule applies any more
RulesDone ==
    /\ pc = "done"
    /\ SeedTodo = {}
    /\ PropagateTodo = {}
    /\ CancelTodo = {}
    /\ InvertTodo = {}

\* C9: applying the seed, propagate, cancel and invert rules one at a time in any
\* order until none applies yields the One edges and the reaching sets saturate
\* returns.
C9_Confluent ==
    RulesDone =>
        /\ r_one = OneEdges(edges)
        /\ r_reach = reaching_set

\* a run in which every rule was applied and saturate added One edges
C9_Witness ==
    /\ RulesDone
    /\ AddedOne
    /\ r_one = OneEdges(edges)
    /\ \E n \in 1..Len(nodes) :
          /\ nodes[n].suffix_variance = Covariant
          /\ \E entry \in r_reach[n] : entry[1] = Load
    /\ constraints = TestSaturation

-----------------------------------------------------------------------------
(* infer_shapes: what the claims speak of *)

ShapesDone == pc = "shapes_done"

\* step 2 has processed every constraint
UnifyDone == pc = "unify" /\ next_c > Len(constraints)

\* the representative find_equiv_group would return for ind
FinalRep(ind) == find_walk(g_nodes, ind, <<>>)

\* following represent pointers ends, from every node
Acyclic == \A n \in 1..Len(g_nodes) : ~FinalRep(n).diverged

SameClass(u, v) ==
    /\ ~FinalRep(u).diverged
    /\ ~FinalRep(v).diverged
    /\ FinalRep(u).ret = FinalRep(v).ret

SameQuotientNode(l, r) ==
    \E q \in 1..Len(g_quotient) :
        /\ l \in Range(g_quotient[q])
        /\ r \in Range(g_quotient[q])

\* C3: when infer_shapes finishes, for every input constraint l <= r the step-graph
\* nodes of l and r have the same final representative, and l and r are listed in
\* the same quotient-graph node.
C3_ConstraintsUnified ==
    ShapesDone =>
        \A i \in 1..Len(constraints) :
            /\ SameClass(gm[constraints[i].left], gm[constraints[i].right])
            /\ SameQuotientNode(constraints[i].left, constraints[i].right)

\* C4: when step 2 of infer_shapes is finished, any two different step-graph nodes
\* of one equivalence class send their outgoing edges with equal labels, or with the
\* labels Load and Store, to targets of one equivalence class.
C4_Congruence ==
    (UnifyDone /\ Acyclic) =>
        \A i \in 1..Len(g_edges), j \in 1..Len(g_edges) :
            (/\ g_edges[i].source # g_edges[j].source
             /\ SameClass(g_edges[i].source, g_edges[j].source)
             /\ labels_unify(g_edges[i].label, g_edges[j].label))
                => SameClass(g_edges[i].target, g_edges[j].target)

\* C5: every call of find_equiv_group and unify returns, so infer_shapes never
\* stays in one of them for ever.
C5_Total == pc # "hang"

\* C10: the quotient graph never has two edges with the same source class, target
\* class and label, nor two edges with the same source class and label that lead
\* to different target classes.
C10_OneEdgePerLabel ==
    ShapesDone =>
        \A i \in 1..Len(gq_edges), j \in 1..Len(gq_edges) :
            (/\ i # j
             /\ gq_edges[i].source = gq_edges[j].source
             /\ gq_edges[i].label = gq_edges[j].label)
                => FALSE

-----------------------------------------------------------------------------
(* add_node and add_edge called twice on the graphs the program builds *)

\* nodes to insert: those of the graph, the variance-inverted ones and a new one
CandidateNodes ==
    Range(nodes) \cup {inverted_node(n) : n \in Range(nodes)}
    \cup {Node(Var("fresh"), Covariant, SideMarkNone)}

CandidateLabels == {One, Recall(Store)}

\* build_initial_graph or saturate has just returned
GraphBuilt == pc \in {"saturate", "done"}

CountNode(G, node) == Cardinality({i \in 1..Len(G.nodes) : G.nodes[i] = node})

CountEdge(G, from, to, label) ==
    Cardinality({i \in 1..Len(G.edges) : G.edges[i] = Edge(from, to, label)})

\* add_node(node) twice: the same index, one graph node, the second call changes
\* nothing
NodeTwice(G, node) ==
    LET first == add_node(G, node)
        second == add_node(first.g, node)
    IN  /\ second.index = first.index
        /\ second.g = first.g
        /\ CountNode(second.g, node) = 1
        /\ second.g.nodes[second.index] = node

\* add_edge(from, to, label) twice, from # to: the second call returns false and
\* changes nothing; one such edge is there unless G held several before
EdgeTwice(G, from, to, label) ==
    LET first == add_edge(G, from, to, label)
        second == add_edge(first.g, from, to, label)
    IN  /\ ~second.added
        /\ second.g = first.g
        /\ first.added = (CountEdge(G, from, to, label) = 0)
        /\ CountEdge(G, from, to, label) <= 1 => CountEdge(second.g, from, to, label) = 1

\* add_edge(a, a, label): false, the graph unchanged
SelfLoop(G, a, label) ==
    LET r == add_edge(G, a, a, label)
    IN  ~r.added /\ r.g = G

-----------------------------------------------------------------------------
(* graph_node_map and the nodes of the graph *)

\* C13: in every state of build_initial_graph and saturate, graph_node_map is a
\* bijection between the Node values of the graph and its node indices: its keys are
\* the nodes of the graph, the node stored at a key's index is the key, and no two
\* indices carry equal nodes.
C13_MapBijection ==
    /\ DOMAIN graph_node_map = Range(nodes)
    /\ \A node \in DOMAIN graph_node_map :
          /\ graph_node_map[node] \in 1..Len(nodes)
          /\ nodes[graph_node_map[node]] = node
    /\ \A i \in 1..Len(nodes), j \in 1..Len(nodes) : nodes[i] = nodes[j] => i = j

\* a returned graph whose constraints name some variable more than once, so that
\* add_node has found nodes it had added before
C13_Witness ==
    /\ Returned
    /\ Len(nodes) >= 6
    /\ Len(constraints) >= 2
    /\ \E i \in 1..Len(constraints), j \in 1..Len(constraints) :
          i # j /\ constraints[i].right = constraints[j].left

-----------------------------------------------------------------------------
(* the variance-inverted counterpart of every node *)

\* build_initial_graph has returned
Built == pc \in {"saturate", "propagate", "cancel", "invert", "done", "panic"}

\* C14: in the graph build_initial_graph returns, and from then on, every node
\* (d, v, s) has its counterpart (d, invert(v), s), and the unwrap of the lookup of
\* the variance-inverted node in saturate's inversion never fails.
C14_Counterpart ==
    /\ Built => \A n \in 1..Len(nodes) : inverted_node(nodes[n]) \in DOMAIN graph_node_map
    /\ pc # "panic"

\* the inversion has looked up the counterpart of a contravariant node holding a
\* store entry, and has added the load entry there
C14_Witness ==
    /\ Returned
    /\ \E n \in 1..Len(nodes) :
          /\ nodes[n].suffix_variance = Contravariant
          /\ nodes[n].base.fields # <<>>
          /\ \E entry \in reaching_set[n] :
                /\ entry[1] = Store
                /\ <<Load, entry[2]>> \in reaching_set[graph_node_map[inverted_node(nodes[n])]]

-----------------------------------------------------------------------------
(* the lookups of infer_shapes *)

\* step 1 is finished
StepGraphDone == pc \in {"unify", "quotient_edges", "shapes_done", "hang"}

\* the two sides of every constraint
Sides == {c.left : c \in Range(constraints)} \cup {c.right : c \in Range(constraints)}

\* d and every prefix of d
Prefixes(d) == {get_sub_dtv(d, k) : k \in 0..Len(d.fields)}

\* C15: after step 1 of infer_shapes every side of every constraint, and every
\* prefix of it, has its step-graph node under its own key in gm, so the lookups of
\* c.left and c.right in step 2 find a node; and after the first loop of step 3 every
\* node's representative has its entry in gm_quotient, so the lookups of the second
\* loop find a node.
C15_LookupsFound ==
    /\ StepGraphDone =>
          \A d \in Sides : \A q \in Prefixes(d) :
              /\ q \in DOMAIN gm
              /\ gm[q] \in 1..Len(g_nodes)
              /\ g_nodes[gm[q]].dtv = q
    /\ pc \in {"quotient_edges", "shapes_done"} =>
          \A n \in 1..Len(g_nodes) :
              /\ ~FinalRep(n).diverged
              /\ FinalRep(n).ret \in DOMAIN gm_quotient
              /\ gm_quotient[FinalRep(n).ret] \in 1..Len(g_quotient)

\* infer_shapes has finished on constraints with a base variable as a side and with
\* a side x.l whose prefix x is no side of any constraint
C15_Witness ==
    /\ ShapesDone
    /\ \E d \in Sides : d.fields = <<>>
    /\ \E d \in Sides : d.fields # <<>> /\ get_sub_dtv(d, 0) \notin Sides
    /\ Len(g_quotient) < Len(g_nodes)

-----------------------------------------------------------------------------
(* the quotient nodes as a partition *)

\* the places (quotient node, position) at which dtv is listed
ListedAt(dtv) ==
    {qk \in (1..Len(g_quotient)) \X (1..Len(g_nodes)) :
        qk[2] <= Len(g_quotient[qk[1]]) /\ g_quotient[qk[1]][qk[2]] = dtv}

\* C16: when infer_shapes finishes, every DTV that has a step-graph node is listed
\* in exactly one quotient node, exactly once, every listed DTV has a step-graph
\* node, and two DTVs are listed in the same quotient node iff their final
\* representatives are equal.
C16_Partition ==
    ShapesDone =>
        /\ \A n \in 1..Len(g_nodes) : Cardinality(ListedAt(g_nodes[n].dtv)) = 1
        /\ \A q \in 1..Len(g_quotient) :
              /\ g_quotient[q] # <<>>
              /\ \A k \in 1..Len(g_quotient[q]) : g_quotient[q][k] \in DOMAIN gm
        /\ \A n \in 1..Len(g_nodes), m \in 1..Len(g_nodes) :
              SameQuotientNode(g_nodes[n].dtv, g_nodes[m].dtv) <=> SameClass(n, m)

\* a quotient graph with several nodes, one of them listing several DTVs
C16_Witness ==
    /\ ShapesDone
    /\ Len(g_quotient) >= 2
    /\ \E q \in 1..Len(g_quotient) : Len(g_quotient[q]) >= 3

-----------------------------------------------------------------------------
(* the edges of the returned graph *)

\* C19: the graph ConstraintGraph::new returns has no edge from a node to itself and
\* no two edges with the same (source, target, label).
C19_NoLoopNoDuplicate ==
    Returned =>
        /\ \A i \in 1..Len(edges) : edges[i].source # edges[i].target
        /\ \A i \in 1..Len(edges), j \in 1..Len(edges) : edges[i] = edges[j] => i = j

-----------------------------------------------------------------------------
(* the base obligations *)

ContraNode(dtv) == Node(dtv, Contravariant, SideMarkNone)

\* the One edges build_initial_graph owes to the constraints, as pairs of nodes
BaseObligations ==
    {<<CovNode(c.left), CovNode(c.right)>> : c \in Range(constraints)}
    \cup {<<ContraNode(c.right), ContraNode(c.left)>> : c \in Range(constraints)}

\* C20: the graph build_initial_graph returns has, for every constraint l <= r, the
\* covariant and the contravariant nodes of l and r, a One edge (l, Covariant) ->
\* (r, Covariant) and a One edge (r, Contravariant) -> (l, Contravariant); and every
\* One edge of it is one of these for some constraint.
C20_BaseObligations ==
    pc = "saturate" =>
        /\ \A ab \in BaseObligations : HasOne(ab[1], ab[2])
        /\ \A i \in 1..Len(edges) :
              edges[i].label.kind = "One" =>
                  <<nodes[edges[i].source], nodes[edges[i].target]>> \in BaseObligations

\* build_initial_graph has returned a graph of several constraints with Forget and
\* Recall edges beside the One edges
C20_Witness ==
    /\ pc = "saturate"
    /\ Len(constraints) >= 2
    /\ \E i \in 1..Len(edges) : edges[i].label.kind = "Forget"
    /\ \E i \in 1..Len(edges) : edges[i].label.kind = "Recall"
    /\ \E c \in Range(constraints) : c.left # c.right

-----------------------------------------------------------------------------
(* infer_proc_types: what the claims speak of *)

SchedDone == pc = "sched_done"

\* the calls f -> g, as pairs of names, whose ends lie in different components
CrossCalls ==
    {<<call_graph.nodes[e[1]], call_graph.nodes[e[2]]>> :
        e \in {d \in call_graph.edges :
                  ~\E k \in 1..Len(sccs) : /\ call_graph.nodes[d[1]] \in Range(sccs[k])
                                           /\ call_graph.nodes[d[2]] \in Range(sccs[k])}}

\* the calls of ConstraintGraph::new made for a component proc is in
HandedAt(proc) == {i \in 1..Len(handed) : proc \in Range(handed[i].procs)}

\* C11: for every call f -> g whose ends lie in different strongly connected
\* components, whenever ConstraintGraph::new has been called for f's component, it
\* was called for g's component earlier and had returned the saturated graph.
C11_CalleesFirst ==
    sccs # <<>> =>
        \A fg \in CrossCalls :
            \A i \in HandedAt(fg[1]) :
                \E j \in HandedAt(fg[2]) : j < i /\ handed[j].returned

\* a finished run over several components, one of them of two procedures, with a
\* call from one component into another
C11_Witness ==
    /\ SchedDone
    /\ Len(sccs) >= 2
    /\ \E k \in 1..Len(sccs) : Len(sccs[k]) >= 2
    /\ CrossCalls # {}
    /\ \A i \in 1..Len(handed) : handed[i].returned

\* the constraints of the procedures of a component, as a bag
ConstraintBag(procs) ==
    LET places == UNION {{<<p, i>> : i \in 1..Len(proc_constraints[p])} : p \in Range(procs)}
    IN  [c \in {proc_constraints[pi[1]][pi[2]] : pi \in places} |->
            Cardinality({pi \in places : proc_constraints[pi[1]][pi[2]] = c})]

SeqBag(cs) ==
    [c \in Range(cs) |-> Cardinality({i \in 1..Len(cs) : cs[i] = c})]

\* C17: the components partition the procedures of the call graph;
\* ConstraintGraph::new is called at most once per component, with the constraints of
\* that component's procedures and no others; when infer_proc_types returns it has
\* been called exactly once for every component, so every procedure has been handed
\* over exactly once; and the assertion of line 332 never fails.
C17_OncePerComponent ==
    /\ pc # "assert_failed"
    /\ sccs # <<>> =>
          \A n \in 1..Len(call_graph.nodes) :
              Cardinality({ki \in (1..Len(sccs)) \X (1..Len(call_graph.nodes)) :
                              /\ ki[2] <= Len(sccs[ki[1]])
                              /\ sccs[ki[1]][ki[2]] = call_graph.nodes[n]}) = 1
    /\ \A i \in 1..Len(handed), j \in 1..Len(handed) :
          handed[i].ind = handed[j].ind => i = j
    /\ \A i \in 1..Len(handed) :
          /\ handed[i].procs = sccs[handed[i].ind]
          /\ SeqBag(handed[i].constraints) = ConstraintBag(handed[i].procs)
    /\ pc \in {"build", "build_contravariant", "saturate", "propagate", "cancel", "invert",
               "done"} => constraints = handed[Len(handed)].constraints
    /\ SchedDone =>
          /\ Len(handed) = Len(sccs)
          /\ \A n \in 1..Len(call_graph.nodes) :
                Cardinality(HandedAt(call_graph.nodes[n])) = 1

\* a finished run with a component of several procedures that all have constraints,
\* beside other components
C17_Witness ==
    /\ SchedDone
    /\ Len(handed) >= 2
    /\ \E i \in 1..Len(handed) :
          /\ Len(handed[i].procs) >= 2
          /\ \A k \in 1..Len(handed[i].procs) : proc_constraints[handed[i].procs[k]] # <<>>
          /\ Len(handed[i].constraints) >= 3

-----------------------------------------------------------------------------
(* the round trip through Display and the parser *)

\* C18: for every DerivedTypeVariable v, parse_derived_type_variable applied to the
\* Display text of v succeeds, consumes the whole text and yields v.
C18_RoundTrip ==
    pc = "parsed" =>
        /\ parsed.ok
        /\ parsed.rest = <<>>
        /\ parsed.val = dtv_in

-----------------------------------------------------------------------------
(* the Forget and Recall chains *)

\* base is longer's base with its last field, the capability c, removed, and the
\* variance of the shorter node is that of the longer combined with variance(c)
ChainStep(shorter, longer, c) ==
    /\ longer.base.name = shorter.base.name
    /\ longer.base.fields = Append(shorter.base.fields, c)
    /\ shorter.suffix_variance = combine(longer.suffix_variance, variance(c))

\* the constraints build_initial_graph has dealt with
BuiltConstraints == {constraints[i] : i \in 1..(next_b - 1)}

\* the nodes with base d that a Recall edge leads into / a Forget edge leaves
RecalledInto(d) ==
    {nodes[edges[i].target] :
        i \in {j \in 1..Len(edges) :
                  edges[j].label.kind = "Recall" /\ nodes[edges[j].target].base = d}}

ForgottenFrom(d) ==
    {nodes[edges[i].source] :
        i \in {j \in 1..Len(edges) :
                  edges[j].label.kind = "Forget" /\ nodes[edges[j].source].base = d}}

BothPolarities(d) == {CovNode(d), ContraNode(d)}

\* C21: in every reachable constraint graph, each Recall{c} edge a -> b has b.base =
\* a.base with c appended and a.suffix_variance = b.suffix_variance.combine(variance(c));
\* each Forget{c} edge a -> b has a.base = b.base with c appended and b.suffix_variance
\* = a.suffix_variance.combine(variance(c)); and for every constraint l <= r that
\* build_initial_graph has dealt with, a Recall edge leads into every non-empty prefix
\* of l and a Forget edge leaves every non-empty prefix of r, in both polarities.
C21_ChainShape ==
    /\ \A i \in 1..Len(edges) :
          /\ edges[i].label.kind = "Recall" =>
                ChainStep(nodes[edges[i].source], nodes[edges[i].target],
                          edges[i].label.capability)
          /\ edges[i].label.kind = "Forget" =>
                ChainStep(nodes[edges[i].target], nodes[edges[i].source],
                          edges[i].label.capability)
    /\ \A c \in BuiltConstraints :
          /\ \A k \in 1..Len(c.left.fields) :
                BothPolarities(get_sub_dtv(c.left, k)) \subseteq RecalledInto(get_sub_dtv(c.left, k))
          /\ \A k \in 1..Len(c.right.fields) :
                BothPolarities(get_sub_dtv(c.right, k)) \subseteq ForgottenFrom(get_sub_dtv(c.right, k))

\* the returned graph of a constraint with two fields on the left and two on the
\* right, one of them contravariant: a Recall and a Forget edge at every prefix
C21_Witness ==
    /\ Returned
    /\ \E c \in BuiltConstraints :
          /\ Len(c.left.fields) = 2
          /\ Len(c.right.fields) = 2
          /\ RecalledInto(get_sub_dtv(c.left, 1)) = BothPolarities(get_sub_dtv(c.left, 1))
          /\ ForgottenFrom(get_sub_dtv(c.right, 2)) = BothPolarities(get_sub_dtv(c.right, 2))
    /\ \E i \in 1..Len(edges) :
          /\ edges[i].label.kind = "Recall"
          /\ variance(edges[i].label.capability) = Contravariant
          /\ nodes[edges[i].source].suffix_variance # nodes[edges[i].target].suffix_variance

-----------------------------------------------------------------------------
(* the representative pointers during step 2 *)

\* step 2 of infer_shapes is under way or has just ended
InStepTwo == pc = "unify"

\* C22: in every state reached during step 2 of infer_shapes, following represent
\* from any step-graph node reaches, in finitely many steps, a node whose represent
\* is absent or is the node itself; there is never a cycle of two or more nodes.
C22_RepresentAcyclic ==
    InStepTwo => \A n \in 1..Len(g_nodes) : ~find_walk(g_nodes, n, <<>>).diverged

-----------------------------------------------------------------------------
(* the order of the constraints *)

\* the partition of the DTVs a list of quotient nodes stands for
Partition(q) == {Range(q[k]) : k \in 1..Len(q)}

\* the constraints in every order
Reorderings(cs) ==
    {[k \in 1..Len(cs) |-> cs[f[k]]] : f \in Permutations(1..Len(cs))}

\* C23: the partition of the DTVs into quotient classes that infer_shapes computes
\* depends only on the set of constraints: a run on the same constraints in another
\* order, if it finishes, yields the same partition.
C23_OrderIndependent ==
    ShapesDone =>
        \A cs \in Reorderings(constraints) :
            ~infer_shapes(cs).diverged =>
                Partition(infer_shapes(cs).g_quotient) = Partition(g_quotient)

-----------------------------------------------------------------------------
(* what saturate leaves alone *)

\* saturate is running
Saturating == pc \in {"saturate", "propagate", "cancel", "invert"}

\* the Forget and Recall edges, in insertion order
ChainEdges(es) == SelectSeq(es, LAMBDA e : e.label.kind # "One")

\* C24: saturate adds no node and changes no entry of graph_node_map, and adds or
\* removes no Forget or Recall edge: each of its steps leaves the nodes, the map and
\* the edges it found, and whatever it adds is a One edge.
C24_SaturateFrame ==
    [][Saturating =>
          /\ nodes' = nodes
          /\ graph_node_map' = graph_node_map
          /\ ChainEdges(edges') = ChainEdges(edges)
          /\ Len(edges') >= Len(edges)
          /\ SubSeq(edges', 1, Len(edges)) = edges
          /\ \A i \in (Len(edges) + 1)..Len(edges') : edges'[i].label = One]_vars

\* saturate has returned a graph with Forget and Recall edges to which it has added
\* more than one One edge
C24_Witness ==
    /\ Returned
    /\ OneCount >= 2 * Len(constraints) + 2
    /\ Len(ChainEdges(edges)) >= 4
    /\ passes >= 2

-----------------------------------------------------------------------------
(* the two polarities of the One edges *)

\* the One edges as pairs of nodes
OneEdgeNodes == {<<nodes[ab[1]], nodes[ab[2]]>> : ab \in OneEdges(edges)}

\* the One edge from (b, invert(w)) to (a, invert(v)) of one from (a, v) to (b, w)
Mirror(ab) == <<inverted_node(ab[2]), inverted_node(ab[1])>>

\* C25 as the spec states it: in the graph ConstraintGraph::new returns, a One edge
\* from (a, v) to (b, w) exists iff a One edge from (b, invert(w)) to (a, invert(v))
\* exists.
C25_MirrorSymmetry ==
    Returned => \A ab \in OneEdgeNodes : Mirror(ab) \in OneEdgeNodes

\* C25 amended: in the graph build_initial_graph hands to saturate, a One edge from
\* (a, v) to (b, w) exists iff a One edge from (b, invert(w)) to (a, invert(v))
\* exists, and saturate keeps these base edges and their mirrors; the One edges
\* saturate adds need not have a mirror.
C25_BaseMirror ==
    /\ pc = "saturate" => \A ab \in OneEdgeNodes : Mirror(ab) \in OneEdgeNodes
    /\ Built => \A ab \in BaseObligations :
                    ab \in OneEdgeNodes /\ Mirror(ab) \in OneEdgeNodes

\* saturate has returned a graph in which a base edge has its mirror and an edge
\* saturate added has none
C25_Witness ==
    /\ Returned
    /\ \E ab \in BaseObligations :
          ab[1] # ab[2] /\ ab[1].base.fields # <<>> /\ Mirror(ab) \in OneEdgeNodes
    /\ \E ab \in OneEdgeNodes \ BaseObligations : Mirror(ab) \notin OneEdgeNodes

-----------------------------------------------------------------------------
(* where the reaching-set entries and the added One edges come from *)

\* c and d are the same capability, or are Load and Store
SameOrDual(c, d) == c = d \/ {c, d} = {Load, Store}

\* some Forget edge leaves node m with the capability c or its Load/Store dual
ForgetSource(c, m) ==
    \E i \in 1..Len(edges) :
        /\ edges[i].label.kind = "Forget"
        /\ edges[i].source = m
        /\ SameOrDual(edges[i].label.capability, c)

\* the One edges saturate has added, as pairs of nodes: add_edge adds none that is
\* already there, so they are the ones that are no base obligation
AddedOneEdges == OneEdgeNodes \ BaseObligations

LastLabel(node) == node.base.fields[Len(node.base.fields)]

\* C26: every reaching-set entry (c, m) held during saturate has m equal to the
\* source of some Forget edge whose capability is c or, when c is Load or Store, the
\* other of the two; and every One edge n -> b saturate adds joins two nodes with
\* non-empty field paths whose last labels are equal or are the pair Load/Store.
C26_Provenance ==
    /\ \A n \in DOMAIN reaching_set :
          \A entry \in reaching_set[n] : ForgetSource(entry[1], entry[2])
    /\ \A ab \in AddedOneEdges :
          /\ ab[1].base.fields # <<>>
          /\ ab[2].base.fields # <<>>
          /\ SameOrDual(LastLabel(ab[1]), LastLabel(ab[2]))

\* saturate has returned with an entry the inversion made out of a Forget{store}
\* edge, and with an added One edge from a node ending in store to one ending in load
C26_Witness ==
    /\ Returned
    /\ \E n \in DOMAIN reaching_set :
          \E entry \in reaching_set[n] :
              /\ entry[1] = Load
              /\ \A i \in 1..Len(edges) :
                    (edges[i].label.kind = "Forget" /\ edges[i].source = entry[2])
                        => edges[i].label.capability = Store
    /\ \E ab \in AddedOneEdges : LastLabel(ab[1]) = Store /\ LastLabel(ab[2]) = Load

-----------------------------------------------------------------------------
(* the step graph as a trie *)

\* step 1 has just ended
AfterStepOne == pc = "unify" /\ next_c = 1

\* every prefix of every side of every constraint
AllPrefixes == UNION {Prefixes(d) : d \in Sides}

\* the steps from a prefix to the next longer one: (shorter, longer, label)
TrieSteps ==
    {<<get_sub_dtv(d, Len(d.fields) - 1), d, d.fields[Len(d.fields)]>> :
        d \in {q \in AllPrefixes : q.fields # <<>>}}

\* the edges of the step graph as (source DTV, target DTV, label)
StepEdges ==
    {<<g_nodes[g_edges[k].source].dtv, g_nodes[g_edges[k].target].dtv, g_edges[k].label>> :
        k \in 1..Len(g_edges)}

\* C27: after step 1 of infer_shapes the step graph has exactly one node per distinct
\* prefix (of length 0 up to the full length) of the DTVs of the constraints; its
\* edges are exactly those from the prefix of length i-1 to the prefix of length i
\* labelled with the i-th field, each present once however many constraints mention
\* the DTV; and every node's representative is still unset.
C27_Trie ==
    AfterStepOne =>
        /\ {g_nodes[n].dtv : n \in 1..Len(g_nodes)} = AllPrefixes
        /\ Len(g_nodes) = Cardinality(AllPrefixes)
        /\ StepEdges = TrieSteps
        /\ Len(g_edges) = Cardinality(TrieSteps)
        /\ \A n \in 1..Len(g_nodes) : g_nodes[n].represent = NoRepresent

\* step 1 has ended on constraints that mention a DTV with two fields twice and
\* share a prefix between different DTVs
C27_Witness ==
    /\ AfterStepOne
    /\ Len(constraints) = 2
    /\ \E d \in Sides :
          /\ Len(d.fields) = 2
          /\ \E i, j \in 1..Len(constraints) :
                i # j /\ d \in {constraints[i].left, constraints[i].right}
                      /\ d \in {constraints[j].left, constraints[j].right}
    /\ \E d, e \in Sides :
          d # e /\ d.fields # <<>> /\ e.fields # <<>> /\ get_sub_dtv(d, 1) = get_sub_dtv(e, 1)
    /\ Len(g_edges) >= 2

====
